---------------------------- MODULE Spec2Model ----------------------------
(***************************************************************************)
(* A model of the runner-local artifact cache of setup-go:                 *)
(*   src/custom/backend.ts  the store on the runner's file system          *)
(*   src/custom/cache.ts    restoreCache and saveCache                     *)
(*                                                                         *)
(* Strings are sequences of one-character strings.  An async function is   *)
(* cut into one action per awaited I/O operation; the synchronous code     *)
(* between two awaits belongs to the action of the await before it.        *)
(***************************************************************************)
EXTENDS Integers, Sequences, FiniteSets, TLC

(***************************************************************************)
(* Strings and node's posix path module                                    *)
(***************************************************************************)

\* the string made of n copies of the character c
Repeat(n, c) == [i \in 1..n |-> c]

Sep == "/"
DotDot == <<".", ".">>

SlashAt(s) == {i \in 1..Len(s) : s[i] = Sep}

\* the pieces of s between separators, empty pieces included, left to right
RECURSIVE PiecesFrom(_, _)
PiecesFrom(s, from) ==
    LET later == {i \in SlashAt(s) : i >= from}
    IN  IF later = {}
        THEN << SubSeq(s, from, Len(s)) >>
        ELSE LET nxt == CHOOSE i \in later : \A j \in later : i <= j
             IN  << SubSeq(s, from, nxt - 1) >> \o PiecesFrom(s, nxt + 1)

Pieces(s) == PiecesFrom(s, 1)

\* path.normalizeString: resolves "." and ".." and drops empty pieces
RECURSIVE NormalizeFold(_, _, _)
NormalizeFold(ps, res, allowAboveRoot) ==
    IF ps = <<>> THEN res
    ELSE LET seg == Head(ps)
             rest == Tail(ps)
         IN  IF Len(seg) = 0 \/ seg = <<".">>
             THEN NormalizeFold(rest, res, allowAboveRoot)
             ELSE IF seg = DotDot
             THEN IF Len(res) > 0 /\ res[Len(res)] # DotDot
                  THEN NormalizeFold(rest, SubSeq(res, 1, Len(res) - 1), allowAboveRoot)
                  ELSE IF allowAboveRoot
                  THEN NormalizeFold(rest, Append(res, DotDot), allowAboveRoot)
                  ELSE NormalizeFold(rest, res, allowAboveRoot)
             ELSE NormalizeFold(rest, Append(res, seg), allowAboveRoot)

\* the segments joined by the separator
RECURSIVE JoinSegs(_)
JoinSegs(segs) ==
    IF segs = <<>> THEN <<>>
    ELSE IF Len(segs) = 1 THEN segs[1]
    ELSE segs[1] \o <<Sep>> \o JoinSegs(Tail(segs))

\* path.posix.normalize
PathNormalize(path) ==
    IF Len(path) = 0 THEN <<".">>
    ELSE LET isAbsolute == path[1] = Sep
             trailingSeparator == path[Len(path)] = Sep
             body == JoinSegs(NormalizeFold(Pieces(path), <<>>, ~isAbsolute))
         IN  IF Len(body) = 0
             THEN IF isAbsolute THEN <<Sep>>
                  ELSE IF trailingSeparator THEN <<".", Sep>> ELSE <<".">>
             ELSE (IF isAbsolute THEN <<Sep>> ELSE <<>>) \o body
                  \o (IF trailingSeparator THEN <<Sep>> ELSE <<>>)

\* path.posix.join of a list of strings: the non-empty ones, joined and normalized
RECURSIVE JoinNonEmpty(_)
JoinNonEmpty(args) ==
    IF args = <<>> THEN <<>>
    ELSE LET rest == JoinNonEmpty(Tail(args))
         IN  IF Len(Head(args)) = 0 THEN rest
             ELSE IF Len(rest) = 0 THEN Head(args)
             ELSE Head(args) \o <<Sep>> \o rest

PathJoin(args) ==
    LET joined == JoinNonEmpty(args)
    IN  IF Len(joined) = 0 THEN <<".">> ELSE PathNormalize(joined)

\* path.posix.dirname
PathDirname(path) ==
    IF Len(path) = 0 THEN <<".">>
    ELSE LET hasRoot == path[1] = Sep
             nonSep == {j \in 2..Len(path) : path[j] # Sep}
             lastNon == IF nonSep = {} THEN 0
                        ELSE CHOOSE j \in nonSep : \A k \in nonSep : k <= j
             seps == {i \in 2..(lastNon - 1) : path[i] = Sep}
             end == IF seps = {} THEN 0
                    ELSE CHOOSE i \in seps : \A k \in seps : k <= i
         IN  IF end = 0 THEN (IF hasRoot THEN <<Sep>> ELSE <<".">>)
             ELSE IF hasRoot /\ end = 2 THEN <<Sep, Sep>>
             ELSE SubSeq(path, 1, end - 1)

(***************************************************************************)
(* The runner's file system: a tree of directories and files, addressed by *)
(* the sequence of names from the root.                                    *)
(***************************************************************************)

NoData == "-"
Dir == [kind |-> "dir", tar |-> NoData, len |-> NoData, rest |-> NoData, ext |-> NoData]
Absent == [kind |-> "absent", tar |-> NoData, len |-> NoData, rest |-> NoData, ext |-> NoData]
\* a file: the whole archive of the content tar, or no byte or some bytes of one.
\* tar is the archive its first bytes are of, rest the archive the bytes after
\* them are of, ext the archive that gave the file its length.
File(tar, len) ==
    [kind |-> "file", tar |-> tar, len |-> len,
     rest |-> IF len = "full" THEN tar ELSE NoData,
     ext |-> IF len = "full" THEN tar ELSE NoData]
Whole(tar) == File(tar, "full")
Empty == File(NoData, "zero")
Truncated == File(NoData, "part")
\* the first bytes of the archive of tar, while it is being copied
Partial(tar) == File(tar, "part")
\* a file written by more than one copy: whole when all its bytes are of one
\* archive, else of full length ("mixed") with bytes of several
Torn(head, rest, ext) ==
    IF rest = NoData THEN (IF head = NoData THEN Empty ELSE Partial(head))
    ELSE IF head = rest /\ rest = ext THEN Whole(head)
    ELSE [kind |-> "file", tar |-> head, len |-> "mixed", rest |-> rest, ext |-> ext]

\* the longest file name the file system takes (NAME_MAX)
NameMax == 255

\* the names the kernel walks for an absolute, normalized path
Resolve(path) == SelectSeq(Pieces(path), LAMBDA seg : Len(seg) > 0 /\ seg # <<".">>)
HasTrailingSep(path) == Len(path) > 1 /\ path[Len(path)] = Sep

Parent(segs) == SubSeq(segs, 1, Len(segs) - 1)

NodeAt(fs, segs) == IF segs \in DOMAIN fs THEN fs[segs] ELSE Absent

NameTooLong(segs) == \E n \in 1..Len(segs) : Len(segs[n]) > NameMax

\* fs.stat: a path with a trailing separator names a directory or nothing
Stat(fs, path) ==
    LET node == NodeAt(fs, Resolve(path))
    IN  IF HasTrailingSep(path) /\ node.kind = "file" THEN Absent ELSE node

\* the first name on the way to segs that is a file (0 when there is none)
Obstacle(fs, segs) ==
    LET blocked == {n \in 1..Len(segs) : NodeAt(fs, SubSeq(segs, 1, n)).kind = "file"}
    IN  IF blocked = {} THEN 0 ELSE CHOOSE n \in blocked : \A m \in blocked : n <= m

\* fs.mkdir(dir, {recursive: true}): every missing directory down to dir
MkdirP(fs, segs) ==
    LET upTo == IF Obstacle(fs, segs) = 0 THEN Len(segs) ELSE Obstacle(fs, segs) - 1
        made == {SubSeq(segs, 1, n) : n \in 0..upTo} \ DOMAIN fs
    IN  [d \in DOMAIN fs \cup made |-> IF d \in made THEN Dir ELSE fs[d]]

\* whether open(path, O_WRONLY | O_CREAT | O_TRUNC) can succeed
CanCreate(fs, path) ==
    LET segs == Resolve(path)
    IN  /\ ~HasTrailingSep(path)
        /\ ~NameTooLong(segs)
        /\ Len(segs) > 0
        /\ NodeAt(fs, Parent(segs)).kind = "dir"
        /\ NodeAt(fs, segs).kind # "dir"

WriteNode(fs, segs, node) ==
    [d \in DOMAIN fs \cup {segs} |-> IF d = segs THEN node ELSE fs[d]]

RemoveNode(fs, segs) == [d \in DOMAIN fs \ {segs} |-> fs[d]]

(***************************************************************************)
(* The archive codec (@actions/cache tar helpers) and the caller's paths   *)
(***************************************************************************)

\* what the caller's paths hold: nothing, or one of these contents
NoContent == "absent"
Junk == "junk"
Contents == {"d1", "d2", "big"}

\* a byte count as hi * 2^30 + lo
Bytes(hi, lo) == [hi |-> hi, lo |-> lo]
Unmeasured == Bytes(-1, 0)
Greater(a, b) == a.hi > b.hi \/ (a.hi = b.hi /\ a.lo > b.lo)

\* 10 * Math.pow(1024, 3)
CacheFileSizeLimit == Bytes(10, 0)

\* utils.getArchiveFileSizeInBytes of the archive createTar makes of d:
\* d2 packs to the ceiling exactly, big to one byte more
ArchiveSize(d) ==
    CASE d = "d2"  -> Bytes(10, 0)
      [] d = "big" -> Bytes(10, 1)
      [] OTHER     -> Bytes(0, 4096)

\* createTar: the archive of the content d
Pack(d) == Whole(d)
\* extractTar: the content of a complete archive
CanUnpack(blob) == blob.kind = "file" /\ blob.len = "full"
Unpack(blob) == blob.tar

(***************************************************************************)
(* cache.ts: validation                                                    *)
(***************************************************************************)

NoError == [name |-> "", msg |-> "", arg |-> <<>>]
ValidationError(msg, arg) == [name |-> "ValidationError", msg |-> msg, arg |-> arg]
PlainError(msg) == [name |-> "Error", msg |-> msg, arg |-> <<>>]

MaxKeyLength == 512
MaxKeys == 10

checkPaths(paths) ==
    IF ~paths.given \/ Len(paths.list) = 0
    THEN ValidationError("Path Validation Error: At least one directory or file path is required", <<>>)
    ELSE NoError

HasComma(key) == \E i \in 1..Len(key) : key[i] = ","

checkKey(key) ==
    IF Len(key) > MaxKeyLength
    THEN ValidationError("Key Validation Error: cannot be larger than 512 characters", key)
    ELSE IF HasComma(key)
    THEN ValidationError("Key Validation Error: cannot contain commas", key)
    ELSE NoError

\* restoreKeys = restoreKeys || []; keys = [primaryKey, ...restoreKeys]
ResolvedKeys(primaryKey, restoreKeys) ==
    <<primaryKey>> \o (IF restoreKeys.given THEN restoreKeys.list ELSE <<>>)

CheckKeys_PrimaryOnly(keys) == checkKey(keys[1])

\* for (const key of keys) checkKey(key): the first error
CheckKeys(keys) ==
    LET bad == {i \in 1..Len(keys) : checkKey(keys[i]) # NoError}
    IN  IF bad = {} THEN NoError
        ELSE checkKey(keys[CHOOSE i \in bad : \A j \in bad : i <= j])

RestoreValidate_KeysFirst(in) ==
    LET keys == ResolvedKeys(in.primaryKey, in.restoreKeys)
    IN  IF Len(keys) > MaxKeys
        THEN ValidationError("Key Validation Error: Keys are limited to a maximum of 10.", <<>>)
        ELSE IF CheckKeys(keys) # NoError THEN CheckKeys(keys)
        ELSE checkPaths(in.paths)

RestoreValidate_TenRejected(in) ==
    LET keys == ResolvedKeys(in.primaryKey, in.restoreKeys)
    IN  IF checkPaths(in.paths) # NoError THEN checkPaths(in.paths)
        ELSE IF Len(keys) >= MaxKeys
        THEN ValidationError("Key Validation Error: Keys are limited to a maximum of 10.", <<>>)
        ELSE CheckKeys(keys)

\* the synchronous head of restoreCache
RestoreValidate(in) ==
    LET keys == ResolvedKeys(in.primaryKey, in.restoreKeys)
    IN  IF checkPaths(in.paths) # NoError THEN checkPaths(in.paths)
        ELSE IF Len(keys) > MaxKeys
        THEN ValidationError("Key Validation Error: Keys are limited to a maximum of 10.", <<>>)
        ELSE CheckKeys(keys)

\* the synchronous head of saveCache
SaveValidate(in) ==
    IF checkPaths(in.paths) # NoError THEN checkPaths(in.paths)
    ELSE checkKey(in.primaryKey)

(***************************************************************************)
(* backend.ts: addressing                                                  *)
(***************************************************************************)

NoLocation == [found |-> FALSE, path |-> <<>>]
Location(path) == [found |-> TRUE, path |-> path]

\* GHRUNNER_CACHE unset or empty: the cache is not available
getArchiveLocation_Unguarded(e) == Location(PathJoin(<<e.top, e.repo, e.ref>>))

getArchiveLocation(e) ==
    IF ~e.set \/ Len(e.top) = 0 THEN NoLocation
    ELSE Location(PathJoin(<<e.top, e.repo, e.ref>>))

\* getCacheFile: cacheFile = path.join(archiveLocation, key)
CacheFilePath(e, key) == PathJoin(<<getArchiveLocation(e).path, key>>)

SaveFilePath_NoScope(e, key) == PathJoin(<<e.top, key>>)

\* backend.saveCache: cacheFile = path.join(archiveLocation, key)
SaveFilePath(e, key) == PathJoin(<<getArchiveLocation(e).path, key>>)

\* a variant without the size check
getCacheFile_AnySize(fs, e, key, statOk) ==
    IF ~getArchiveLocation(e).found THEN NoLocation
    ELSE IF statOk /\ Stat(fs, CacheFilePath(e, key)).kind = "file"
    THEN Location(CacheFilePath(e, key))
    ELSE NoLocation

\* a variant that returns the path without a look at the file
getCacheFile_NoStat(fs, e, key, statOk) ==
    IF ~getArchiveLocation(e).found THEN NoLocation
    ELSE Location(CacheFilePath(e, key))

\* getCacheFile: statOk is whether fs.stat answers at all
getCacheFile(fs, e, key, statOk) ==
    IF ~getArchiveLocation(e).found THEN NoLocation
    ELSE LET cacheFile == CacheFilePath(e, key)
             fileStat == Stat(fs, cacheFile)
         IN  IF statOk /\ fileStat.kind = "file" /\ fileStat.len # "zero"
             THEN Location(cacheFile)
             ELSE NoLocation

(***************************************************************************)
(* Callers and their inputs                                                *)
(***************************************************************************)

\* the processes that may call the cache
Procs == {1, 2}

\* an optional list argument: not given (undefined), or a list
NotGiven == [given |-> FALSE, list |-> <<>>]
Given(list) == [given |-> TRUE, list |-> list]

KeyK == <<"k">>
KeyJ == <<"j">>
KeyComma == <<"k", ",", "j">>
KeyMax == Repeat(MaxKeyLength, "x")
KeyLong == Repeat(MaxKeyLength + 1, "x")
KeyInputs == {KeyK, KeyJ, KeyComma, KeyMax, KeyLong}
\* the empty key passes checkKey and addresses the directory of the scope
KeyEmpty == <<>>

PathInputs == {NotGiven, Given(<<>>), Given(<< <<"p">> >>)}

\* the longest restoreKeys list tried
MaxRestoreKeys == 10
RestoreKeyInputs ==
    {NotGiven, Given(<<KeyJ>>), Given(<<KeyComma>>), Given(<<KeyK, KeyLong>>)}
    \cup {Given([i \in 1..n |-> KeyJ]) : n \in {0, 9, MaxRestoreKeys}}

OnePath == Given(<< <<"p">> >>)

RestoreInput(paths, primaryKey, restoreKeys, lookupOnly) ==
    [op |-> "restore", paths |-> paths, primaryKey |-> primaryKey,
     restoreKeys |-> restoreKeys, lookupOnly |-> lookupOnly]

RestoreInputs ==
    {RestoreInput(paths, KeyK, NotGiven, FALSE) : paths \in PathInputs}
    \cup {RestoreInput(OnePath, key, NotGiven, FALSE) : key \in KeyInputs}
    \cup {RestoreInput(OnePath, KeyK, keys, FALSE) : keys \in RestoreKeyInputs}
    \cup {RestoreInput(OnePath, key, NotGiven, TRUE) : key \in {KeyK, KeyComma}}
    \cup {RestoreInput(OnePath, KeyEmpty, NotGiven, FALSE)}
    \cup {RestoreInput(Given(<<>>), KeyLong, Given([i \in 1..MaxRestoreKeys |-> KeyJ]), FALSE)}

SaveInput(paths, key) ==
    [op |-> "save", paths |-> paths, primaryKey |-> key,
     restoreKeys |-> NotGiven, lookupOnly |-> FALSE]

SaveInputs ==
    {SaveInput(paths, KeyK) : paths \in PathInputs}
    \cup {SaveInput(OnePath, key) : key \in KeyInputs}
    \cup {SaveInput(Given(<<>>), KeyComma)}

NoCall == [op |-> "none", paths |-> NotGiven, primaryKey |-> <<>>,
           restoreKeys |-> NotGiven, lookupOnly |-> FALSE]

\* process.env: GHRUNNER_CACHE (set or not), GITHUB_REPOSITORY, GITHUB_REF_NAME
Environment(set, top, repo, ref) == [set |-> set, top |-> top, repo |-> repo, ref |-> ref]
EnvUnset == Environment(FALSE, <<>>, <<"r">>, <<"m">>)
EnvEmpty == Environment(TRUE, <<>>, <<"r">>, <<"m">>)
EnvMain == Environment(TRUE, <<"/", "c">>, <<"r">>, <<"m">>)
Envs == {EnvUnset, EnvEmpty, EnvMain}

(***************************************************************************)
(* State                                                                   *)
(***************************************************************************)

VARIABLES
    store,  \* the file system that holds the cache: names from the root -> node
    ws,     \* per process, what the caller's paths hold
    tmp,    \* per process, the temporary archive file of the call in progress
    env,    \* per process, its environment
    pc,     \* per process, where its call stands
    call,   \* per process, the arguments of its call
    loc,    \* per process, the call's locals: cacheFile, cacheId, archiveFileSize,
            \* hit (the try of restoreCache returned primaryKey) and rethrow (the
            \* error the catch of saveCache throws again)
    out,    \* per process, how the call completed
    log,    \* per process, the I/O operations the call has performed
    fails,  \* per process, the I/O operations of the call that failed
    last    \* per process, the save its restore follows: the previous call, when it
            \* was a save to a configured store that returned 1 with no I/O failure
            \* (its key, its environment, the content packed), kept until a call
            \* that is not a full restore of that key in that environment

vars == <<store, ws, tmp, env, pc, call, loc, out, log, fails, last>>

Pending == [kind |-> "pending", hit |-> FALSE, key |-> <<>>, id |-> 0, err |-> NoError]
ReturnKey(key) == [kind |-> "returned", hit |-> TRUE, key |-> key, id |-> 0, err |-> NoError]
ReturnUndefined == [kind |-> "returned", hit |-> FALSE, key |-> <<>>, id |-> 0, err |-> NoError]
ReturnId(id) == [kind |-> "returned", hit |-> FALSE, key |-> <<>>, id |-> id, err |-> NoError]
Thrown(err) == [kind |-> "thrown", hit |-> FALSE, key |-> <<>>, id |-> 0, err |-> err]

Locals == [cacheFile |-> <<>>, cacheId |-> -1, archiveFileSize |-> Unmeasured,
           hit |-> FALSE, rethrow |-> NoError]

EmptyStore == [d \in {<<>>} |-> Dir]

NoSave == [saved |-> FALSE, key |-> <<>>, env |-> EnvUnset, content |-> NoContent]

Init ==
    /\ store = EmptyStore
    /\ ws = [p \in Procs |-> NoContent]
    /\ tmp = [p \in Procs |-> Absent]
    /\ env = [p \in Procs |-> EnvUnset]
    /\ pc = [p \in Procs |-> "idle"]
    /\ call = [p \in Procs |-> NoCall]
    /\ loc = [p \in Procs |-> Locals]
    /\ out = [p \in Procs |-> Pending]
    /\ log = [p \in Procs |-> {}]
    /\ fails = [p \in Procs |-> {}]
    /\ last = [p \in Procs |-> NoSave]

\* the call of p completes with outcome o
Complete(p, o) ==
    /\ pc' = [pc EXCEPT ![p] = "done"]
    /\ out' = [out EXCEPT ![p] = o]

Goto(p, label) ==
    /\ pc' = [pc EXCEPT ![p] = label]
    /\ UNCHANGED out

Did(p, ops) == log' = [log EXCEPT ![p] = @ \cup ops]
Failed(p, ops) == fails' = [fails EXCEPT ![p] = @ \cup ops]

(***************************************************************************)
(* cache.ts: restoreCache                                                  *)
(***************************************************************************)

\* a variant that ignores the option
LookupOnly_Ignored(in) == FALSE

\* options?.lookupOnly
LookupOnly(in) == in.lookupOnly

\* a variant whose catch falls through to a return of the key
RestoreResult_KeyAfterCatch(locals, primaryKey) == ReturnKey(primaryKey)

\* what restoreCache returns after its try: primaryKey from the try, undefined
\* from the catch
RestoreResult(locals, primaryKey) ==
    IF locals.hit THEN ReturnKey(primaryKey) ELSE ReturnUndefined

\* a variant whose finally lets the error of unlinkFile out
CleanupOutcome_UnlinkThrows(outcome, unlinked) ==
    IF unlinked THEN outcome ELSE Thrown(PlainError("unlinkFile"))

\* the catch around utils.unlinkFile only logs: the call completes as it would have
CleanupOutcome(outcome, unlinked) == outcome

\* restoreCache is called: checkPaths, the key count, checkKey of each key
RestoreCall(p, in, e) ==
    /\ last' = [last EXCEPT ![p] =
                  IF @.saved /\ @.key = in.primaryKey /\ @.env = e /\ ~in.lookupOnly
                  THEN @ ELSE NoSave]
    /\ pc[p] = "idle"
    /\ env' = [env EXCEPT ![p] = e]
    /\ call' = [call EXCEPT ![p] = in]
    /\ IF RestoreValidate(in) # NoError
       THEN Complete(p, Thrown(RestoreValidate(in)))
       ELSE Goto(p, "r_probe")
    /\ UNCHANGED <<store, ws, tmp, loc, log, fails>>

\* await backend.getCacheFile(primaryKey), then the miss and lookupOnly returns
RestoreProbe(p) ==
    /\ UNCHANGED last
    /\ pc[p] = "r_probe"
    /\ \E statOk \in BOOLEAN :
        LET cacheFile == getCacheFile(store, env[p], call[p].primaryKey, statOk)
        IN  /\ Did(p, IF getArchiveLocation(env[p]).found THEN {"stat"} ELSE {})
            /\ Failed(p, IF getArchiveLocation(env[p]).found /\ ~statOk THEN {"stat"} ELSE {})
            /\ IF ~cacheFile.found
               THEN Complete(p, ReturnUndefined) /\ UNCHANGED loc
               ELSE IF LookupOnly(call[p])
               THEN Complete(p, ReturnKey(call[p].primaryKey)) /\ UNCHANGED loc
               ELSE /\ Goto(p, "r_tmpdir")
                    /\ loc' = [loc EXCEPT ![p].cacheFile = cacheFile.path]
    /\ UNCHANGED <<store, ws, tmp, env, call>>

\* await utils.createTempDirectory(): outside the try, a failure propagates
RestoreTempDir(p) ==
    /\ UNCHANGED last
    /\ pc[p] = "r_tmpdir"
    /\ \E ok \in BOOLEAN :
        IF ok
        THEN Goto(p, "r_download") /\ Did(p, {"tmpdir"}) /\ UNCHANGED fails
        ELSE /\ Complete(p, Thrown(PlainError("createTempDirectory")))
             /\ Failed(p, {"tmpdir"})
             /\ UNCHANGED log
    /\ UNCHANGED <<store, ws, tmp, env, call, loc>>

\* what a failed copy may leave at its destination
Leftovers == {Absent, Empty, Truncated}

\* what a failed copy may leave where node was: the destination removed, or
\* left with the bytes written so far
FailedCopyLeaves(node) ==
    IF node.kind # "file" THEN {node}
    ELSE IF node.len \in {"zero", "part"} THEN Leftovers
    ELSE {Absent, node}

\* a copy of the archive of tar writes its first bytes at offset 0 of the file
\* it opened; a file another copy removed since takes nothing
ChunkOnto(node, tar) ==
    IF node.kind # "file" THEN node
    ELSE Torn(tar, node.rest, node.ext)

\* the copy writes the rest of the archive after its first bytes; bytes of a
\* longer archive beyond its end stay
FinishOnto(node, tar) ==
    IF node.kind # "file" THEN node
    ELSE Torn(node.tar, tar,
              IF node.ext # NoData /\ Greater(ArchiveSize(node.ext), ArchiveSize(tar))
              THEN node.ext ELSE tar)

\* a variant that moves the entry out of the store
CopyOut_Move(fs, path) == RemoveNode(fs, Resolve(path))

\* fs.copyFile leaves its source as it is
CopyOut(fs, path) == fs

\* await backend.downloadCache(cacheFile, archivePath): fs.copyFile
RestoreDownload(p) ==
    /\ UNCHANGED last
    /\ pc[p] = "r_download"
    /\ LET src == Stat(store, loc[p].cacheFile)
       IN  \E ok \in BOOLEAN :
            IF ok /\ src.kind = "file"
            THEN /\ tmp' = [tmp EXCEPT ![p] = src]
                 /\ Goto(p, "r_extract")
                 /\ UNCHANGED fails
            ELSE /\ \E left \in (IF src.kind = "file" THEN Leftovers ELSE {Absent}) :
                        tmp' = [tmp EXCEPT ![p] = left]
                 /\ Failed(p, {"download"})
                 /\ Goto(p, "r_cleanup")
    /\ Did(p, {"read"})
    /\ store' = CopyOut(store, loc[p].cacheFile)
    /\ UNCHANGED <<ws, env, call, loc>>

\* getArchiveFileSizeInBytes, listTar when debugging, await extractTar
RestoreExtract(p) ==
    /\ UNCHANGED last
    /\ pc[p] = "r_extract"
    /\ \E ok \in BOOLEAN :
        IF ok /\ CanUnpack(tmp[p])
        THEN /\ ws' = [ws EXCEPT ![p] = Unpack(tmp[p])]
             /\ loc' = [loc EXCEPT ![p].hit = TRUE]
             /\ UNCHANGED fails
        ELSE /\ \E left \in {ws[p], Junk} : ws' = [ws EXCEPT ![p] = left]
             /\ Failed(p, {"extract"})
             /\ UNCHANGED loc
    /\ Did(p, {"extract"})
    /\ Goto(p, "r_cleanup")
    /\ UNCHANGED <<store, tmp, env, call>>

\* a variant that deletes the archive at the end of the try, not in a finally
Unlink_OnlyAfterSuccess(p, ok) ==
    IF ~loc[p].hit /\ loc[p].cacheId # 1
    THEN UNCHANGED <<tmp, fails>>
    ELSE IF ok /\ tmp[p].kind = "file"
    THEN tmp' = [tmp EXCEPT ![p] = Absent] /\ UNCHANGED fails
    ELSE UNCHANGED tmp /\ Failed(p, {"unlink"})

\* await utils.unlinkFile(archivePath); a failure is only logged
Unlink(p, ok) ==
    IF ok /\ tmp[p].kind = "file"
    THEN tmp' = [tmp EXCEPT ![p] = Absent] /\ UNCHANGED fails
    ELSE UNCHANGED tmp /\ Failed(p, {"unlink"})

\* finally: delete the archive, then return what the try or the catch returned
RestoreCleanup(p) ==
    /\ UNCHANGED last
    /\ pc[p] = "r_cleanup"
    /\ \E ok \in BOOLEAN :
        /\ Unlink(p, ok)
        /\ Complete(p, CleanupOutcome(RestoreResult(loc[p], call[p].primaryKey),
                                      ok /\ tmp[p].kind = "file"))
    /\ Did(p, {"unlink"})
    /\ UNCHANGED <<store, ws, env, call, loc>>

(***************************************************************************)
(* cache.ts: saveCache, and backend.ts: saveCache                          *)
(***************************************************************************)

\* saveCache is called: checkPaths, checkKey, cacheId = -1
SaveCall(p, in, e) ==
    /\ last' = [last EXCEPT ![p] = NoSave]
    /\ pc[p] = "idle"
    /\ env' = [env EXCEPT ![p] = e]
    /\ call' = [call EXCEPT ![p] = in]
    /\ IF SaveValidate(in) # NoError
       THEN Complete(p, Thrown(SaveValidate(in)))
       ELSE Goto(p, "s_resolve")
    /\ UNCHANGED <<store, ws, tmp, loc, log, fails>>

\* await utils.resolvePaths(paths); no existing path is an Error, thrown before the try
SaveResolve(p) ==
    /\ UNCHANGED last
    /\ pc[p] = "s_resolve"
    /\ Did(p, {"resolve"})
    /\ IF ws[p] = NoContent
       THEN Complete(p, Thrown(PlainError("Path Validation Error: Path(s) specified in the action for caching do(es) not exist, hence no cache is being saved.")))
       ELSE Goto(p, "s_tmpdir")
    /\ UNCHANGED <<store, ws, tmp, env, call, loc, fails>>

\* await utils.createTempDirectory(): outside the try, a failure propagates
SaveTempDir(p) ==
    /\ UNCHANGED last
    /\ pc[p] = "s_tmpdir"
    /\ \E ok \in BOOLEAN :
        IF ok
        THEN Goto(p, "s_pack") /\ Did(p, {"tmpdir"}) /\ UNCHANGED fails
        ELSE /\ Complete(p, Thrown(PlainError("createTempDirectory")))
             /\ Failed(p, {"tmpdir"})
             /\ UNCHANGED log
    /\ UNCHANGED <<store, ws, tmp, env, call, loc>>

\* the catch of saveCache: a ValidationError is thrown again, anything else is a warning
SaveCatch(locals, err) ==
    [locals EXCEPT !.rethrow = IF err.name = "ValidationError" THEN err ELSE NoError]

\* await createTar(archiveFolder, cachePaths, compressionMethod)
SavePack(p) ==
    /\ UNCHANGED last
    /\ pc[p] = "s_pack"
    /\ \E ok \in BOOLEAN :
        IF ok
        THEN /\ tmp' = [tmp EXCEPT ![p] = Pack(ws[p])]
             /\ Goto(p, "s_size")
             /\ UNCHANGED <<loc, fails>>
        ELSE /\ \E left \in Leftovers : tmp' = [tmp EXCEPT ![p] = left]
             /\ Failed(p, {"pack"})
             /\ loc' = [loc EXCEPT ![p] = SaveCatch(@, PlainError("createTar"))]
             /\ Goto(p, "s_cleanup")
    /\ Did(p, {"pack"})
    /\ UNCHANGED <<store, ws, env, call>>

OverLimit_WholeGiB(archiveFileSize) == archiveFileSize.hi > CacheFileSizeLimit.hi

\* archiveFileSize > CacheFileSizeLimit
OverLimit(archiveFileSize) == Greater(archiveFileSize, CacheFileSizeLimit)

\* the size check, then the head of backend.saveCache: without an archive
\* location it returns at once, and saveCache sets cacheId = 1
SaveSizeCheck(p) ==
    /\ UNCHANGED last
    /\ pc[p] = "s_size"
    /\ LET archiveFileSize == ArchiveSize(tmp[p].tar)
           measured == [loc[p] EXCEPT !.archiveFileSize = archiveFileSize]
       IN  IF OverLimit(archiveFileSize)
           THEN /\ loc' = [loc EXCEPT ![p] = SaveCatch(measured, PlainError("over the limit, not saving cache"))]
                /\ Goto(p, "s_cleanup")
           ELSE IF ~getArchiveLocation(env[p]).found
           THEN /\ loc' = [loc EXCEPT ![p] = [measured EXCEPT !.cacheId = 1]]
                /\ Goto(p, "s_cleanup")
           ELSE /\ loc' = [loc EXCEPT ![p] =
                            [measured EXCEPT !.cacheFile = SaveFilePath(env[p], call[p].primaryKey)]]
                /\ Goto(p, "s_mkdir")
    /\ Did(p, {"size"})
    /\ UNCHANGED <<store, ws, tmp, env, call, fails>>

\* await fs.mkdir(path.dirname(cacheFile), {recursive: true}); a failure is
\* caught in backend.saveCache, which returns, and saveCache sets cacheId = 1
SaveMkdir(p) ==
    /\ UNCHANGED last
    /\ pc[p] = "s_mkdir"
    /\ LET dir == Resolve(PathDirname(loc[p].cacheFile))
       IN  \E ok \in BOOLEAN :
            IF ok /\ Obstacle(store, dir) = 0 /\ ~NameTooLong(dir)
            THEN /\ store' = MkdirP(store, dir)
                 /\ Goto(p, "s_copy")
                 /\ UNCHANGED <<loc, fails>>
            ELSE /\ store' = (IF ok /\ ~NameTooLong(dir) THEN MkdirP(store, dir) ELSE store)
                 /\ Failed(p, {"mkdir"})
                 /\ loc' = [loc EXCEPT ![p].cacheId = 1]
                 /\ Goto(p, "s_cleanup")
    /\ Did(p, {"mkdir"})
    /\ UNCHANGED <<ws, tmp, env, call>>

\* await fs.copyFile(archivePath, cacheFile): the destination is opened and truncated
SaveCopyOpen(p) ==
    /\ UNCHANGED last
    /\ pc[p] = "s_copy"
    /\ \E ok \in BOOLEAN :
        IF ok /\ CanCreate(store, loc[p].cacheFile)
        THEN /\ store' = WriteNode(store, Resolve(loc[p].cacheFile), Empty)
             /\ Goto(p, "s_copying")
             /\ Did(p, {"write"})
             /\ UNCHANGED <<loc, fails>>
        ELSE /\ Failed(p, {"copy"})
             /\ loc' = [loc EXCEPT ![p].cacheId = 1]
             /\ Goto(p, "s_cleanup")
             /\ UNCHANGED <<store, log>>
    /\ UNCHANGED <<ws, tmp, env, call>>

\* the first bytes are copied; a failure is caught in backend.saveCache as above
SaveCopyChunk(p) ==
    /\ UNCHANGED last
    /\ pc[p] = "s_copying"
    /\ LET dst == Resolve(loc[p].cacheFile)
           node == NodeAt(store, dst)
       IN  \E ok \in BOOLEAN :
            IF ok
            THEN /\ store' = IF node.kind = "file"
                             THEN WriteNode(store, dst, ChunkOnto(node, tmp[p].tar))
                             ELSE store
                 /\ Goto(p, "s_finishing")
                 /\ UNCHANGED <<loc, fails>>
            ELSE /\ \E left \in FailedCopyLeaves(node) :
                        store' = IF left.kind # "file" THEN RemoveNode(store, dst)
                                 ELSE WriteNode(store, dst, left)
                 /\ Failed(p, {"copy"})
                 /\ loc' = [loc EXCEPT ![p].cacheId = 1]
                 /\ Goto(p, "s_cleanup")
    /\ UNCHANGED <<ws, tmp, env, call, log>>

\* the rest of the bytes is copied; backend.saveCache returns and saveCache
\* sets cacheId = 1
SaveCopyWrite(p) ==
    /\ UNCHANGED last
    /\ pc[p] = "s_finishing"
    /\ LET dst == Resolve(loc[p].cacheFile)
           node == NodeAt(store, dst)
       IN  \E ok \in BOOLEAN :
            IF ok
            THEN /\ store' = IF node.kind = "file"
                             THEN WriteNode(store, dst, FinishOnto(node, tmp[p].tar))
                             ELSE store
                 /\ UNCHANGED fails
            ELSE /\ \E left \in FailedCopyLeaves(node) :
                        store' = IF left.kind # "file" THEN RemoveNode(store, dst)
                                 ELSE WriteNode(store, dst, left)
                 /\ Failed(p, {"copy"})
    /\ loc' = [loc EXCEPT ![p].cacheId = 1]
    /\ Goto(p, "s_cleanup")
    /\ UNCHANGED <<ws, tmp, env, call, log>>

\* what saveCache completes with after its try: the rethrow of the catch, or cacheId
SaveResult(locals) ==
    IF locals.rethrow # NoError THEN Thrown(locals.rethrow) ELSE ReturnId(locals.cacheId)

\* finally: delete the archive; then the rethrow of the catch, or return cacheId
SaveCleanup(p) ==
    /\ UNCHANGED last
    /\ pc[p] = "s_cleanup"
    /\ \E ok \in BOOLEAN :
        /\ Unlink(p, ok)
        /\ Complete(p, CleanupOutcome(SaveResult(loc[p]), ok /\ tmp[p].kind = "file"))
    /\ Did(p, {"unlink"})
    /\ UNCHANGED <<store, ws, env, call, loc>>

(***************************************************************************)
(* The caller                                                              *)
(***************************************************************************)

\* the caller takes the outcome; the next call reads the environment again and
\* gets a fresh temporary directory
Return(p) ==
    /\ pc[p] = "done"
    /\ pc' = [pc EXCEPT ![p] = "idle"]
    /\ out' = [out EXCEPT ![p] = Pending]
    /\ call' = [call EXCEPT ![p] = NoCall]
    /\ loc' = [loc EXCEPT ![p] = Locals]
    /\ tmp' = [tmp EXCEPT ![p] = Absent]
    /\ log' = [log EXCEPT ![p] = {}]
    /\ fails' = [fails EXCEPT ![p] = {}]
    /\ env' = [env EXCEPT ![p] = EnvUnset]
    /\ last' = [last EXCEPT ![p] =
                  IF /\ call[p].op = "save" /\ out[p] = ReturnId(1) /\ fails[p] = {}
                     /\ getArchiveLocation(env[p]).found
                  THEN [saved |-> TRUE, key |-> call[p].primaryKey, env |-> env[p],
                        content |-> ws[p]]
                  ELSE NoSave]
    /\ UNCHANGED <<store, ws>>

\* between two calls the build changes what the caller's paths hold
WsChange(p) ==
    /\ UNCHANGED last
    /\ pc[p] = "idle"
    /\ \E d \in (Contents \cup {NoContent}) \ {ws[p]} : ws' = [ws EXCEPT ![p] = d]
    /\ UNCHANGED <<store, tmp, env, pc, call, loc, out, log, fails>>

\* the steps of a call in progress
Run(p) ==
    \/ RestoreProbe(p)
    \/ RestoreTempDir(p)
    \/ RestoreDownload(p)
    \/ RestoreExtract(p)
    \/ RestoreCleanup(p)
    \/ SaveResolve(p)
    \/ SaveTempDir(p)
    \/ SavePack(p)
    \/ SaveSizeCheck(p)
    \/ SaveMkdir(p)
    \/ SaveCopyOpen(p)
    \/ SaveCopyChunk(p)
    \/ SaveCopyWrite(p)
    \/ SaveCleanup(p)

Step(p) ==
    \/ \E in \in RestoreInputs, e \in Envs : RestoreCall(p, in, e)
    \/ \E in \in SaveInputs, e \in Envs : SaveCall(p, in, e)
    \/ Run(p)
    \/ Return(p)
    \/ WsChange(p)

\* one caller at a time: each call runs to completion before the next
Callers == {1}
Next == \E p \in Callers : Step(p)
Spec == Init /\ [][Next]_vars

\* Jobs of two refs of one repository, one caller at a time, with a key that
\* holds path separators and ".." segments, which checkKey accepts
KeyUp == <<".", ".", "/", "m", "/", "k">>
EnvOther == Environment(TRUE, <<"/", "c">>, <<"r">>, <<"n">>)
ScopeKeys == {KeyK, KeyUp}
ScopeEnvs == {EnvMain, EnvOther}
ScopeRestoreInputs ==
    {RestoreInput(OnePath, key, NotGiven, lookupOnly) :
        key \in ScopeKeys, lookupOnly \in BOOLEAN}
ScopeSaveInputs == {SaveInput(OnePath, key) : key \in ScopeKeys}

StepScopes(p) ==
    \/ \E in \in ScopeRestoreInputs, e \in ScopeEnvs : RestoreCall(p, in, e)
    \/ \E in \in ScopeSaveInputs, e \in ScopeEnvs : SaveCall(p, in, e)
    \/ Run(p)
    \/ Return(p)
    \/ WsChange(p)

NextScopes == \E p \in Callers : StepScopes(p)
SpecScopes == Init /\ [][NextScopes]_vars

\* Two jobs of one scope that each call the cache once, at the same time and
\* with one key, each with paths of its own; their steps interleave
ConcRestoreInputs ==
    {RestoreInput(OnePath, KeyK, NotGiven, lookupOnly) : lookupOnly \in BOOLEAN}
ConcSaveInputs == {SaveInput(OnePath, KeyK)}

InitConc ==
    /\ store = EmptyStore
    /\ ws \in [Procs -> {"d1", "d2"}]
    /\ tmp = [p \in Procs |-> Absent]
    /\ env = [p \in Procs |-> EnvUnset]
    /\ pc = [p \in Procs |-> "idle"]
    /\ call = [p \in Procs |-> NoCall]
    /\ loc = [p \in Procs |-> Locals]
    /\ out = [p \in Procs |-> Pending]
    /\ log = [p \in Procs |-> {}]
    /\ fails = [p \in Procs |-> {}]
    /\ last = [p \in Procs |-> NoSave]

StepConc(p) ==
    \/ \E in \in ConcRestoreInputs : RestoreCall(p, in, EnvMain)
    \/ \E in \in ConcSaveInputs : SaveCall(p, in, EnvMain)
    \/ Run(p)

NextConc == \E p \in Procs : StepConc(p)
SpecConc == InitConc /\ [][NextConc]_vars

(***************************************************************************)
(* Properties                                                              *)
(***************************************************************************)

Done(p) == pc[p] = "done"
InCall(p) == pc[p] # "idle"
IsRestore(p) == call[p].op = "restore"
IsSave(p) == call[p].op = "save"
Configured(p) == env[p].set /\ Len(env[p].top) > 0
CallKeys(p) == ResolvedKeys(call[p].primaryKey, call[p].restoreKeys)
\* the node a key addresses in the scope of p
EntryAt(p, key) == Stat(store, PathJoin(<<env[p].top, env[p].repo, env[p].ref, key>>))
NonEmptyEntry(p, key) == EntryAt(p, key).kind = "file" /\ EntryAt(p, key).len # "zero"

BadKey(key) == Len(key) > 512 \/ \E i \in 1..Len(key) : key[i] = ","
SomeBadKey(p) ==
    \/ IsRestore(p) /\ \E i \in 1..Len(CallKeys(p)) : BadKey(CallKeys(p)[i])
    \/ IsSave(p) /\ BadKey(call[p].primaryKey)
PathsMissing(p) == ~call[p].paths.given \/ Len(call[p].paths.list) = 0
ThrewValidationError(p) ==
    Done(p) /\ out[p].kind = "thrown" /\ out[p].err.name = "ValidationError"
NoIO(p) == log[p] = {} /\ fails[p] = {} /\ tmp[p] = Absent

\* C1: a restore in which no I/O operation failed returns no-result only if
\* every key of [primaryKey, ...restoreKeys] misses: a restore key with a
\* non-empty entry in the scope is a hit when the primary key misses.
C1_RestoreKeysProbedInOrder ==
    \A p \in Procs :
        (Done(p) /\ IsRestore(p) /\ Configured(p) /\ fails[p] = {}
            /\ out[p].kind = "returned" /\ ~out[p].hit)
        => \A i \in 1..Len(CallKeys(p)) : ~NonEmptyEntry(p, CallKeys(p)[i])

\* C2: with a scope configured, save returns 1 only if the packaged archive is
\* in the store at the address of (scope, key), and returns -1, without
\* throwing, whenever fs.mkdir or fs.copyFile of the store write failed.
C2_SavedOnlyIfStored ==
    \A p \in Procs :
        (Done(p) /\ IsSave(p) /\ Configured(p))
        => /\ out[p] = ReturnId(1) => EntryAt(p, call[p].primaryKey) = Pack(ws[p])
           /\ ({"mkdir", "copy"} \cap fails[p] # {}) => out[p] = ReturnId(-1)

\* C3: with the scope root unset, a save with a valid key and existing paths,
\* in which no I/O operation failed, returns -1 and touches nothing in the store.
C3_UnsetSaveNotSaved ==
    \A p \in Procs :
        (Done(p) /\ IsSave(p) /\ ~env[p].set /\ ~PathsMissing(p) /\ ~SomeBadKey(p)
            /\ ws[p] # NoContent /\ fails[p] = {})
        => out[p] = ReturnId(-1) /\ {"mkdir", "write"} \cap log[p] = {}

\* C4: with the scope root unset, a restore with valid paths and keys performs
\* no store read, creates no temporary directory, extracts nothing, and
\* completes by returning no-result.
C4_UnsetRestoreNoResult ==
    \A p \in Procs :
        (InCall(p) /\ IsRestore(p) /\ ~env[p].set
            /\ ~PathsMissing(p) /\ ~SomeBadKey(p) /\ Len(CallKeys(p)) <= 10)
        => /\ pc[p] \in {"r_probe", "done"}
           /\ log[p] = {} /\ fails[p] = {} /\ tmp[p] = Absent
           /\ Done(p) => out[p] = ReturnUndefined

\* C4 witness: the restore returned no-result although another environment
\* would find a non-empty entry for its key
C4_Witness ==
    \E p \in Procs :
        /\ Done(p) /\ IsRestore(p) /\ ~env[p].set
        /\ ~PathsMissing(p) /\ ~SomeBadKey(p) /\ Len(CallKeys(p)) <= 10
        /\ out[p] = ReturnUndefined
        /\ getCacheFile(store, EnvMain, call[p].primaryKey, TRUE).found

\* C5: a save whose packaged archive measures more than 10 GiB throws.
C5_OversizeThrows ==
    \A p \in Procs :
        (Done(p) /\ IsSave(p) /\ Greater(loc[p].archiveFileSize, Bytes(10, 0)))
        => out[p].kind = "thrown"

\* C6: a step of a call changes the store only when the call is a save whose
\* createTar has completed and whose archive has been measured at no more
\* than 10 GiB; once a save has measured more, its steps leave the store as
\* it is, entries at its key included.
C6_StoreWrittenAfterSizeCheck ==
    [][\A p \in Procs :
        pc'[p] # pc[p] =>
            /\ store' # store =>
                /\ IsSave(p)
                /\ "pack" \in log[p] /\ "pack" \notin fails[p]
                /\ loc[p].archiveFileSize # Unmeasured
                /\ ~Greater(loc[p].archiveFileSize, Bytes(10, 0))
            /\ (IsSave(p) /\ Greater(loc'[p].archiveFileSize, Bytes(10, 0)))
                => store' = store]_vars

\* C6 witness: an oversize save has completed and the whole entry that was at
\* its key is still there
C6_Witness ==
    \E p \in Procs :
        /\ Done(p) /\ IsSave(p) /\ Greater(loc[p].archiveFileSize, Bytes(10, 0))
        /\ EntryAt(p, call[p].primaryKey).kind = "file"
        /\ EntryAt(p, call[p].primaryKey).len = "full"

\* C7: a call with a key longer than 512 characters or containing a comma
\* (the primary key or any restore key of a restore, the key of a save)
\* completes by throwing ValidationError, having performed no I/O.
C7_BadKeyRejectedBeforeStorage ==
    \A p \in Procs :
        (InCall(p) /\ SomeBadKey(p)) => ThrewValidationError(p) /\ NoIO(p)

\* C7 witness: a restore whose primary key is valid and has a non-empty entry
\* was rejected for one of its restore keys
C7_Witness ==
    \E p \in Procs :
        /\ ThrewValidationError(p) /\ IsRestore(p) /\ ~PathsMissing(p)
        /\ ~BadKey(call[p].primaryKey) /\ SomeBadKey(p)
        /\ Configured(p) /\ NonEmptyEntry(p, call[p].primaryKey)

\* C8: a restore or a save with no paths completes by throwing one and the
\* same ValidationError, whatever its keys and the store, having performed
\* no I/O (no path resolution, no storage access).
C8_EmptyPathsRejected ==
    \A p \in Procs :
        (InCall(p) /\ PathsMissing(p))
        => /\ Done(p) /\ NoIO(p)
           /\ out[p] = Thrown([name |-> "ValidationError",
                               msg |-> "Path Validation Error: At least one directory or file path is required",
                               arg |-> <<>>])

\* C8 witness: a restore without paths, with a bad primary key and more than
\* ten keys, was rejected for its paths while the store held entries
C8_Witness ==
    \E p \in Procs :
        /\ Done(p) /\ IsRestore(p) /\ PathsMissing(p)
        /\ BadKey(call[p].primaryKey) /\ Len(CallKeys(p)) > 10
        /\ out[p].kind = "thrown"
        /\ store # EmptyStore

\* C9: a restore with paths and more than 10 keys in [primaryKey,
\* ...restoreKeys] completes by throwing ValidationError, having performed
\* no I/O; one with exactly 10 keys, each valid, is never rejected.
C9_KeyCountLimit ==
    \A p \in Procs :
        (InCall(p) /\ IsRestore(p) /\ ~PathsMissing(p))
        => /\ Len(CallKeys(p)) > 10 => ThrewValidationError(p) /\ NoIO(p)
           /\ (Len(CallKeys(p)) = 10 /\ ~SomeBadKey(p)) => ~ThrewValidationError(p)

\* C9 witness: a restore with 11 valid keys was rejected although its primary
\* key has a non-empty entry
C9_Witness ==
    \E p \in Procs :
        /\ ThrewValidationError(p) /\ IsRestore(p) /\ ~PathsMissing(p)
        /\ Len(CallKeys(p)) > 10 /\ ~SomeBadKey(p)
        /\ Configured(p) /\ NonEmptyEntry(p, call[p].primaryKey)

\* C10: a full restore with valid keys that follows a save of the same key in
\* the same configured environment, no I/O operation of either having failed,
\* returns that key and leaves in the caller's paths the content the save packed.
C10_RoundTrip ==
    \A p \in Procs :
        (Done(p) /\ IsRestore(p) /\ last[p].saved /\ fails[p] = {}
            /\ ~PathsMissing(p) /\ ~SomeBadKey(p) /\ Len(CallKeys(p)) <= 10)
        => /\ call[p].primaryKey = last[p].key /\ env[p] = last[p].env
           /\ out[p] = ReturnKey(last[p].key)
           /\ ws[p] = last[p].content

\* C10 witness: such a restore has returned its key, with the content that
\* packs to exactly 10 GiB in the caller's paths
C10_Witness ==
    \E p \in Procs :
        /\ Done(p) /\ IsRestore(p) /\ last[p].saved /\ fails[p] = {}
        /\ out[p].hit /\ ws[p] = "d2" /\ "extract" \in log[p]

\* C11: every call that got its temporary directory, of restore or of save,
\* has attempted the deletion of the temporary archive when it completes,
\* whatever the path it took, and when that deletion did not fail no
\* temporary archive is left.
C11_TempArchiveDeleted ==
    \A p \in Procs :
        (Done(p) /\ "tmpdir" \in log[p])
        => /\ "unlink" \in log[p]
           /\ "unlink" \notin fails[p] => tmp[p] = Absent

\* a save rejected for its size, and a restore whose extraction failed, each
\* completed with the archive deleted
C11_Witness ==
    \E p \in Procs :
        /\ Done(p) /\ "tmpdir" \in log[p] /\ "unlink" \notin fails[p]
        /\ tmp[p] = Absent
        /\ \/ IsSave(p) /\ Greater(loc[p].archiveFileSize, CacheFileSizeLimit)
           \/ IsRestore(p) /\ "extract" \in fails[p]

\* C12: a restore in which the download or the extraction failed completes by
\* returning no-result, never by throwing, and a full restore returns its key
\* only when the download and the extraction were both done and neither failed.
C12_RestoreFailuresCaught ==
    \A p \in Procs :
        (Done(p) /\ IsRestore(p))
        => /\ fails[p] \cap {"download", "extract"} # {} => out[p] = ReturnUndefined
           /\ (out[p].kind = "returned" /\ out[p].hit /\ ~call[p].lookupOnly)
              => /\ {"read", "extract"} \subseteq log[p]
                 /\ fails[p] \cap {"download", "extract"} = {}

\* a restore found its entry, failed to download or to extract it, and
\* returned no-result
C12_Witness ==
    \E p \in Procs :
        /\ Done(p) /\ IsRestore(p) /\ NonEmptyEntry(p, call[p].primaryKey)
        /\ fails[p] \cap {"download", "extract"} # {}
        /\ out[p] = ReturnUndefined

\* C13: each step of a lookup-only restore leaves the store, the caller's
\* paths and the temporary archive as they were and does no I/O but the probe;
\* it completes at the probe, with the primary key when the probe finds a
\* non-empty entry.
C13_LookupOnlyHitDoesNothing ==
    [][\A p \in Procs :
        (pc'[p] # pc[p] /\ call'[p].op = "restore" /\ call'[p].lookupOnly)
        => /\ store' = store /\ ws' = ws /\ tmp' = tmp
           /\ log'[p] \subseteq {"stat"}
           /\ pc'[p] \in {"r_probe", "done"}
           /\ (pc[p] = "r_probe" /\ NonEmptyEntry(p, call[p].primaryKey)
                 /\ "stat" \notin fails'[p])
              => out'[p] = ReturnKey(call[p].primaryKey)]_vars

\* a lookup-only restore returned its key
C13_Witness ==
    \E p \in Procs :
        /\ Done(p) /\ IsRestore(p) /\ call[p].lookupOnly
        /\ out[p] = ReturnKey(call[p].primaryKey)
        /\ log[p] = {"stat"} /\ tmp[p] = Absent

\* C14: the address of an entry is a different one for each scope and each
\* key that checkKey accepts, so the steps by which a save under one (scope,
\* key) makes its directory and writes its entry leave what is found at the
\* address of every other (scope, key) as it was.
C14_ScopeIsolation ==
    [][\A p \in Procs :
        (pc[p] \in {"s_mkdir", "s_copy", "s_copying", "s_finishing"} /\ pc'[p] # pc[p])
        => \A e \in ScopeEnvs, key \in ScopeKeys :
              (checkKey(key) = NoError /\ <<e, key>> # <<env[p], call[p].primaryKey>>)
              => /\ CacheFilePath(e, key) # loc[p].cacheFile
                 /\ Stat(store', CacheFilePath(e, key)) = Stat(store, CacheFilePath(e, key))]_vars

\* C15: the store is never observed partly written: whatever the interleaving
\* of saves and restores of one (scope, key), and after a save whose copy
\* failed part-way, a restore that reports a hit found the complete archive of
\* one save at its probe, and a full restore extracted such an archive.
C15_NoPartialEntryObserved ==
    [][\A p \in Procs :
        /\ (pc[p] = "r_probe" /\ pc'[p] = "done" /\ out'[p].hit)
           => CanUnpack(EntryAt(p, call[p].primaryKey))
        /\ (pc[p] = "r_extract" /\ loc'[p].hit) => CanUnpack(tmp[p])]_vars

\* C16: when two saves of different archives to one (scope, key) run at the
\* same time and both complete with no failure, the entry is the complete
\* archive of one of the two (of the one that finished its write last).
C16_LastWriterWins ==
    (/\ \A p \in Procs :
            /\ Done(p) /\ IsSave(p) /\ Configured(p)
            /\ out[p] = ReturnId(1) /\ fails[p] = {}
            /\ env[p] = env[1] /\ call[p].primaryKey = call[1].primaryKey
     /\ ws[1] # ws[2])
    => \E p \in Procs : EntryAt(1, call[1].primaryKey) = Pack(ws[p])

\* C17: the probe of a restore changes nothing in the store, and it finds an
\* entry exactly when the scope is configured, fs.stat answered, and the
\* address holds a regular file of more than zero bytes: a missing entry, a
\* zero-length file, a directory and a failing stat are all misses.
C17_ProbeHitsOnlyNonEmptyFile ==
    [][\A p \in Procs :
        (pc[p] = "r_probe" /\ pc'[p] # "r_probe")
        => /\ store' = store
           /\ (pc'[p] = "r_tmpdir" \/ (pc'[p] = "done" /\ out'[p].hit))
              <=> /\ Configured(p) /\ "stat" \notin fails'[p]
                  /\ EntryAt(p, call[p].primaryKey).kind = "file"
                  /\ EntryAt(p, call[p].primaryKey).len # "zero"]_vars

\* a restore missed on a zero-length file, and one on a directory
C17_Witness ==
    \E p \in Procs :
        /\ Done(p) /\ IsRestore(p) /\ Configured(p) /\ fails[p] = {}
        /\ log[p] = {"stat"} /\ out[p] = ReturnUndefined
        /\ \/ EntryAt(p, call[p].primaryKey) = Empty
           \/ EntryAt(p, call[p].primaryKey) = Dir

\* C18: a restore whose probe finds no non-empty entry completes at the probe
\* with no-result: no temporary directory, no read of the store, no
\* extraction, and the caller's paths, the store and the temporary archive
\* as they were.
C18_MissDoesNoMoreIO ==
    [][\A p \in Procs :
        (pc[p] = "r_probe" /\ pc'[p] # "r_probe"
            /\ ~NonEmptyEntry(p, call[p].primaryKey))
        => /\ pc'[p] = "done" /\ out'[p] = ReturnUndefined
           /\ log'[p] \subseteq {"stat"}
           /\ ws' = ws /\ tmp' = tmp /\ store' = store]_vars

\* a full restore of a key with no entry returned no-result after the probe
C18_Witness ==
    \E p \in Procs :
        /\ Done(p) /\ IsRestore(p) /\ Configured(p) /\ ~call[p].lookupOnly
        /\ EntryAt(p, call[p].primaryKey) = Absent
        /\ out[p] = ReturnUndefined /\ log[p] = {"stat"} /\ fails[p] = {}
        /\ tmp[p] = Absent

\* the ways a call may complete from its finally
CleanupOutcomes(p) ==
    {ReturnUndefined, ReturnKey(call[p].primaryKey), ReturnId(1), ReturnId(-1),
     Thrown(loc[p].rethrow)}

\* C19: where a call is about to delete its temporary archive, one outcome is
\* the outcome of the call whether the deletion succeeds or fails: no step from
\* there completes the call with another.
C19_CleanupKeepsOutcome ==
    \A p \in Procs :
        pc[p] \in {"r_cleanup", "s_cleanup"}
        => \E o \in CleanupOutcomes(p) : ~ENABLED (Run(p) /\ out'[p] # o)

\* a call completed with its result although the deletion of its archive, a
\* file that was there, failed
C19_Witness ==
    \E p \in Procs :
        /\ Done(p) /\ "unlink" \in fails[p] /\ tmp[p].kind = "file"
        /\ \/ IsRestore(p) /\ out[p] = ReturnKey(call[p].primaryKey)
           \/ IsSave(p) /\ out[p] = ReturnId(1)

\* C20: no step of a restore changes the store: not its validation, its
\* probe, its download, its extraction or its cleanup, whether it ends in a
\* miss, a lookup-only hit, a success or a failure.
C20_RestoreLeavesStore ==
    [][\A p \in Procs :
        (/\ pc'[p] # pc[p]
         /\ \/ pc[p] \in {"r_probe", "r_tmpdir", "r_download", "r_extract", "r_cleanup"}
            \/ pc[p] = "idle" /\ call'[p].op = "restore")
        => store' = store]_vars

\* a full restore downloaded and extracted an entry, which is still there
C20_Witness ==
    \E p \in Procs :
        /\ Done(p) /\ IsRestore(p) /\ out[p].hit
        /\ {"read", "extract"} \subseteq log[p]
        /\ CanUnpack(EntryAt(p, call[p].primaryKey))
=============================================================================
